---- MODULE Spec2Model ----
(***************************************************************************)
(* Configuration bootstrap (src/config.py) and the dual-sink logger        *)
(* (src/logger.py) of the trading ecosystem, as a state machine.           *)
(*                                                                         *)
(* A thread of control is either idle or inside one operation: a Config    *)
(* construction ("bootstrap"), the creation of a logger (which imports     *)
(* config, and so may run a construction), or a per-level log call.  The   *)
(* shared state is the firebase_admin app registry, the logging module's   *)
(* handler lists, the config module's global, the console and the remote   *)
(* collection.                                                             *)
(*                                                                         *)
(* The environment variables are those the process starts with.  The calls *)
(* into firebase_admin and the remote write succeed or fail as the         *)
(* environment decides; the wall clock does not run backwards.             *)
(***************************************************************************)
EXTENDS Integers, Sequences, FiniteSets, TLC

\* ---------------------------------------------------------------- bounds
MaxOps     == 3      \* operations started in one behaviour: Config
                     \* constructions, logger creations and log calls
MaxClock   == 2      \* last instant of the wall clock
UsecPerSec == 2      \* instants per second (scale of the clock)
MaxKeyLen  == 4      \* characters of FIREBASE_PRIVATE_KEY

Threads == {1, 2}

\* ---------------------------------------------------------------- values
NoneVal == "<None>"                       \* Python's None
Unset   == "<unset>"                      \* environment variable not set
Client  == "firestore.client"             \* the handle firestore.client() returns

TradingModeEnv == {Unset, "paper", "live", "backtest", "bogus"}
ProjectIdEnv   == {Unset, "proj"}
Faults         == {"none", "cert", "init", "client"}
Components     == {"c1", "c2"}
AgentIds       == {"ag"}

\* os.getenv(name, default)
getenv(v, default) == IF v = Unset THEN default ELSE v

\* class TradingMode(Enum): the value -> member table
TradingModeMembers == [paper |-> "PAPER", live |-> "LIVE", backtest |-> "BACKTEST"]

\* TradingMode(value): the member, or ValueError for a value that is no member's
TradingMode(v) ==
    IF v \in DOMAIN TradingModeMembers
    THEN [raised |-> FALSE, value |-> TradingModeMembers[v]]
    ELSE [raised |-> TRUE,  value |-> "ValueError"]

\* the characters of a private key: the backslash, the letter n, the newline
\* and any other character
Backslash == "\\"
Newline   == "\n"
KeyChars  == {Backslash, "n", Newline, "k"}

\* str.replace(old, new), old not empty: the occurrences of old, found left to
\* right without overlap, each replaced by new
RECURSIVE replace(_, _, _)
replace(s, old, new) ==
    IF Len(s) < Len(old) THEN s
    ELSE IF SubSeq(s, 1, Len(old)) = old
         THEN new \o replace(SubSeq(s, Len(old) + 1, Len(s)), old, new)
         ELSE <<Head(s)>> \o replace(Tail(s), old, new)

\* os.getenv("FIREBASE_PRIVATE_KEY", "").replace('\\n', '\n'); a key is the
\* sequence of its characters, and <<>> stands for the unset variable too
NormalizeKeyNoBackslash(key) == replace(key, <<Newline>>, <<Newline>>)
NormalizeKey(key) == replace(key, <<Backslash, "n">>, <<Newline>>)

\* FirebaseConfig.from_env(): the dataclass, or None when the lookup throws
from_env(pid, key, lookupThrows) ==
    IF lookupThrows
    THEN [present |-> FALSE, project_id |-> "", private_key |-> <<>>]
    ELSE [present |-> TRUE,  project_id |-> getenv(pid, ""),
          private_key |-> NormalizeKey(key)]

\* the private keys: every text of at most MaxKeyLen characters
Keys == UNION {[1..n -> KeyChars] : n \in 0..MaxKeyLen}

\* the private key of the environments in which the whole system runs
PrivateKeyEnv == {<<"k", Backslash, "n", "k">>}

\* lookupThrows: reading the credential variables raises inside from_env
Environs ==
    {e \in [TRADING_MODE : TradingModeEnv, FIREBASE_PROJECT_ID : ProjectIdEnv,
            FIREBASE_PRIVATE_KEY : PrivateKeyEnv, lookupThrows : BOOLEAN] :
        e.lookupThrows => e.FIREBASE_PROJECT_ID = Unset}

\* the environments with working credentials and any private key
KeyEnvirons ==
    [TRADING_MODE : {Unset}, FIREBASE_PROJECT_ID : {"proj"},
     FIREBASE_PRIVATE_KEY : Keys, lookupThrows : {FALSE}]

\* the remote steps that can fail in a Config construction with credentials fc:
\* none is reached, so none fails, without credentials that name a project
FaultsOf(fc) ==
    IF ~fc.present \/ fc.project_id = "" THEN {"none"} ELSE Faults

\* ---------------------------------------------------------------- state
VARIABLES
    environ,        \* os.environ, as set when the process starts
    sdkInstalled,   \* `import firebase_admin` succeeds in this process
    apps,           \* len(firebase_admin._apps)
    initLog,        \* history: the firebase_admin.initialize_app invocations
    rootHandlers,   \* len(logging.root.handlers)
    handlers,       \* component name -> len(logging.getLogger(name).handlers)
    configLoaded,   \* the config module is in sys.modules
    config,         \* the module global `config`
    loggers,        \* the EcosystemLogger instances, in creation order
    events,         \* history: the console lines and remote writes of config.py
                    \* and of the two most recent log calls, in order
    clock,          \* the wall clock
    ops,            \* operations started
    calls,          \* log calls started
    pc,             \* thread -> position
    cfg,            \* thread -> the Config under construction
    why,            \* thread -> what the construction is for
    fault,          \* thread -> the remote step that fails in this construction
    attempts,       \* thread -> remote steps attempted in this construction
    appsAtStart,    \* thread -> len(_apps) when this construction began
    pend,           \* thread -> the logger whose __init__ is importing config
    call,           \* thread -> the log call in progress
    last            \* thread -> how the thread's last operation ended

vars == <<environ, sdkInstalled, apps, initLog, rootHandlers, handlers, configLoaded,
          config, loggers, events, clock, ops, calls, pc, cfg, why, fault,
          attempts, appsAtStart, pend, call, last>>

NoConfig  == [mode |-> NoneVal, firebase_config |-> from_env(Unset, <<>>, TRUE),
              firestore_client |-> NoneVal]
NoLogger  == [component_name |-> "c1", agent_id |-> NoneVal]
NoCall    == [id |-> 0, logger |-> 0, level |-> NoneVal, error |-> NoneVal,
              error_details |-> NoneVal, kwargs |-> {}]
NoLast    == [op |-> "none", outcome |-> "none", boot |-> "none"]

InitRest ==
    /\ apps = 0
    /\ initLog = <<>>
    /\ rootHandlers = 0
    /\ handlers = [n \in Components |-> 0]
    /\ configLoaded = FALSE
    /\ config = NoConfig
    /\ loggers = <<>>
    /\ events = <<>>
    /\ clock = 0
    /\ ops = 0
    /\ calls = 0
    /\ pc = [t \in Threads |-> "idle"]
    /\ cfg = [t \in Threads |-> NoConfig]
    /\ why = [t \in Threads |-> "none"]
    /\ fault = [t \in Threads |-> "none"]
    /\ attempts = [t \in Threads |-> {}]
    /\ appsAtStart = [t \in Threads |-> 0]
    /\ pend = [t \in Threads |-> NoLogger]
    /\ call = [t \in Threads |-> NoCall]
    /\ last = [t \in Threads |-> NoLast]

Init ==
    /\ environ \in Environs
    /\ sdkInstalled \in BOOLEAN
    /\ InitRest

\* the process starts with working credentials and any private key
InitKey ==
    /\ environ \in KeyEnvirons
    /\ sdkInstalled = TRUE
    /\ InitRest

\* ---------------------------------------------------------------- logging
\* logging's numeric levels
LevelNo == [INFO |-> 20, WARNING |-> 30, ERROR |-> 40]
RootLevel      == 30     \* logging.root is created at WARNING
ComponentLevelCritical == LevelNo.ERROR + 10
ComponentLevel == 20     \* self.logger.setLevel(logging.INFO)

NoEntry == [timestamp |-> <<>>, level |-> NoneVal, component |-> NoneVal,
            message |-> NoneVal, agent_id |-> NoneVal, strategy_id |-> NoneVal,
            trade_id |-> NoneVal, error_details |-> NoneVal]

\* one line written by a console handler for a record of call id (0: a record
\* of config.py); text is "message" for the caller's message, "note" for the
\* failure note of _log_to_firestore, "boot" for a record of config.py
Line(id, lg, handler, level, text) ==
    [kind |-> "line", call |-> id, logger |-> lg, handler |-> handler, level |-> level,
     text |-> text, ok |-> TRUE, entry |-> NoEntry]

\* len(root.handlers) after a module-level logging call: such a call runs
\* basicConfig(), which installs a stderr handler, when the root logger has none
RootAfterCall(n) == IF n = 0 THEN 1 ELSE n

\* the lines root's handlers write for one record
RootLines(id, lg, level, text, n) ==
    [i \in 1..n |-> Line(id, lg, "root", level, text)]

\* logging.warning / logging.info / logging.error of config.py
RootLog(level) ==
    /\ rootHandlers' = RootAfterCall(rootHandlers)
    /\ events' = IF LevelNo[level] >= RootLevel
                 THEN events \o RootLines(0, 0, level, "boot", RootAfterCall(rootHandlers))
                 ELSE events

\* ---------------------------------------------------------------- bootstrap
Importing(t) == pc[t] # "idle" /\ why[t] \in {"import", "logger"}
InBoot(t)    == pc[t] \in {"init_firebase", "init", "client"}

\* `from config import config; self.firestore_client = config.firestore_client`,
\* and None when the import raises ImportError
SharedClientUnread(loaded, conf) == NoneVal
SharedClient(loaded, conf) == IF loaded THEN conf.firestore_client ELSE NoneVal

MkLogger(l, c) ==
    [component_name |-> l.component_name, agent_id |-> l.agent_id,
     firestore_client |-> c]

\* Config.__init__, up to the call of _init_firebase
StartConfig(t, w, flt) ==
    LET m  == TradingMode(getenv(environ.TRADING_MODE, "paper"))
        fc == from_env(environ.FIREBASE_PROJECT_ID, environ.FIREBASE_PRIVATE_KEY,
                       environ.lookupThrows)
    IN
    /\ flt \in FaultsOf(fc)
    /\ ops < MaxOps
    /\ ops' = ops + 1
    /\ why' = [why EXCEPT ![t] = w]
    /\ fault' = [fault EXCEPT ![t] = flt]
    /\ attempts' = [attempts EXCEPT ![t] = {}]
    /\ appsAtStart' = [appsAtStart EXCEPT ![t] = apps]
    /\ IF m.raised
       THEN /\ pc' = pc
            /\ cfg' = [cfg EXCEPT ![t] = NoConfig]
            /\ last' = [last EXCEPT ![t] =
                          [op |-> IF w = "logger" THEN "create" ELSE "bootstrap",
                           outcome |-> "raised", boot |-> "raised"]]
       ELSE /\ pc' = [pc EXCEPT ![t] = "init_firebase"]
            /\ cfg' = [cfg EXCEPT ![t] =
                          [mode |-> m.value, firebase_config |-> fc,
                           firestore_client |-> NoneVal]]
            /\ last' = [last EXCEPT ![t] =
                          [op |-> "busy", outcome |-> "none", boot |-> "none"]]

\* `not self.firebase_config or not self.firebase_config.project_id`
NoCredentialsPresenceOnly(fc) == ~fc.present
NoCredentials(fc) == ~fc.present \/ fc.project_id = ""

\* `not firebase_admin._apps`
AppsEmptyUnguarded(n) == TRUE
AppsEmpty(n) == n = 0

\* the failing step lies inside the try block of _init_firebase, whose
\* `except Exception` catches it
CaughtBeforeClient(step) == step \in {"cert", "init"}
Caught(step) == step \in {"cert", "init", "client"}

\* return from Config.__init__ with self.firestore_client = c
FinishConfig(t, c) ==
    LET done == [cfg[t] EXCEPT !.firestore_client = c] IN
    /\ cfg' = [cfg EXCEPT ![t] = done]
    /\ pc' = [pc EXCEPT ![t] = "idle"]
    /\ IF why[t] \in {"import", "logger"}
       THEN /\ configLoaded' = TRUE
            /\ config' = done
       ELSE UNCHANGED <<configLoaded, config>>
    /\ IF why[t] = "logger"
       THEN /\ loggers' = Append(loggers, MkLogger(pend[t], SharedClient(TRUE, done)))
            /\ last' = [last EXCEPT ![t] =
                          [op |-> "create", outcome |-> "returned", boot |-> "returned"]]
       ELSE /\ loggers' = loggers
            /\ last' = [last EXCEPT ![t] =
                          [op |-> "bootstrap", outcome |-> "returned", boot |-> "returned"]]

\* Config.__init__ raises: no object is made; an import it was part of fails
\* and leaves no module, and so does the logger construction that imported
RaiseConfig(t) ==
    /\ pc' = [pc EXCEPT ![t] = "idle"]
    /\ cfg' = [cfg EXCEPT ![t] = NoConfig]
    /\ last' = [last EXCEPT ![t] =
                  [op |-> IF why[t] = "logger" THEN "create" ELSE "bootstrap",
                   outcome |-> "raised", boot |-> "raised"]]
    /\ UNCHANGED <<configLoaded, config, loggers, rootHandlers, events>>

\* a step of the try block of _init_firebase fails: the except clause
ExceptInit(t, step) ==
    IF Caught(step)
    THEN /\ RootLog("ERROR")
         /\ FinishConfig(t, NoneVal)
    ELSE RaiseConfig(t)

\* `import config` by the main program: runs `config = Config()`
ImportConfig(t) ==
    /\ pc[t] = "idle"
    /\ sdkInstalled
    /\ ~configLoaded
    /\ \A u \in Threads : ~Importing(u)
    /\ \E flt \in Faults : StartConfig(t, "import", flt)
    /\ UNCHANGED <<environ, sdkInstalled, apps, initLog, rootHandlers, handlers,
                   configLoaded, config, loggers, events, clock, calls, pend, call>>

\* Config() called again on the loaded module
DirectConfig(t) ==
    /\ pc[t] = "idle"
    /\ configLoaded
    /\ \E flt \in Faults : StartConfig(t, "direct", flt)
    /\ UNCHANGED <<environ, sdkInstalled, apps, initLog, rootHandlers, handlers,
                   configLoaded, config, loggers, events, clock, calls, pend, call>>

\* _init_firebase up to the test of firebase_admin._apps
InitFirebase(t) ==
    /\ pc[t] = "init_firebase"
    /\ UNCHANGED <<environ, sdkInstalled, apps, initLog, handlers, clock, ops, calls,
                   why, fault, appsAtStart, pend, call>>
    /\ IF NoCredentials(cfg[t].firebase_config)
       THEN /\ RootLog("WARNING")
            /\ FinishConfig(t, NoneVal)
            /\ UNCHANGED attempts
       ELSE /\ attempts' = [attempts EXCEPT ![t] = @ \cup {"cert"}]
            /\ IF fault[t] = "cert"
               THEN ExceptInit(t, "cert")
               ELSE /\ pc' = [pc EXCEPT ![t] = IF AppsEmpty(apps) THEN "init" ELSE "client"]
                    /\ UNCHANGED <<rootHandlers, events, cfg, configLoaded,
                                   config, loggers, last>>

\* firebase_admin.initialize_app(cred)
InitializeApp(t) ==
    /\ pc[t] = "init"
    /\ attempts' = [attempts EXCEPT ![t] = @ \cup {"init"}]
    /\ initLog' = Append(initLog, [thread |-> t, fault |-> fault[t], apps |-> apps])
    /\ UNCHANGED <<environ, sdkInstalled, handlers, clock, ops, calls, why, fault,
                   appsAtStart, pend, call>>
    /\ IF apps # 0 \/ fault[t] = "init"
       THEN /\ ExceptInit(t, "init")
            /\ UNCHANGED apps
       ELSE /\ apps' = apps + 1
            /\ pc' = [pc EXCEPT ![t] = "client"]
            /\ UNCHANGED <<rootHandlers, events, cfg, configLoaded, config,
                           loggers, last>>

\* self.firestore_client = firestore.client(), and the success message
FirestoreClient(t) ==
    /\ pc[t] = "client"
    /\ attempts' = [attempts EXCEPT ![t] = @ \cup {"client"}]
    /\ UNCHANGED <<environ, sdkInstalled, apps, initLog, handlers, clock, ops, calls,
                   why, fault, appsAtStart, pend, call>>
    /\ IF fault[t] = "client"
       THEN ExceptInit(t, "client")
       ELSE /\ RootLog("INFO")
            /\ FinishConfig(t, Client)

\* ---------------------------------------------------------------- logger
\* logging.getLogger(name) and the `if not self.logger.handlers` block
AddHandler(n) == IF n = 0 THEN 1 ELSE n

\* the component names a new logger is given: names are interchangeable, so
\* the first name used in a behaviour is taken to be "c1"
NameChoices == IF \A n \in Components : handlers[n] = 0 THEN {"c1"} ELSE Components

\* EcosystemLogger.__init__ when the import runs no Config construction:
\* the module is loaded already, or `import firebase_admin` raises ImportError
CreateLogger(t) ==
    /\ pc[t] = "idle"
    /\ ops < MaxOps
    /\ ops' = ops + 1
    /\ configLoaded \/ ~sdkInstalled
    /\ \E name \in NameChoices, agent \in AgentIds :
          /\ handlers' = [handlers EXCEPT ![name] = AddHandler(@)]
          /\ loggers' = Append(loggers,
                 MkLogger([component_name |-> name, agent_id |-> agent],
                          SharedClient(configLoaded, config)))
    /\ last' = [last EXCEPT ![t] =
                  [op |-> "create", outcome |-> "returned", boot |-> "none"]]
    /\ UNCHANGED <<environ, sdkInstalled, apps, initLog, rootHandlers, configLoaded, config,
                   events, clock, calls, pc, cfg, why, fault, attempts,
                   appsAtStart, pend, call>>

\* EcosystemLogger.__init__ when `from config import config` loads the module
CreateLoggerImport(t) ==
    /\ pc[t] = "idle"
    /\ sdkInstalled
    /\ ~configLoaded
    /\ \A u \in Threads : ~Importing(u)
    /\ \E name \in NameChoices, agent \in AgentIds :
          /\ handlers' = [handlers EXCEPT ![name] = AddHandler(@)]
          /\ pend' = [pend EXCEPT ![t] = [component_name |-> name, agent_id |-> agent]]
    /\ \E flt \in Faults : StartConfig(t, "logger", flt)
    /\ UNCHANGED <<environ, sdkInstalled, apps, initLog, rootHandlers, configLoaded, config,
                   loggers, events, clock, calls, call>>

\* ---------------------------------------------------------------- log calls
\* the exceptions handed to error(), and Python's None
Failures == {"SomeFailure('y')"}
ErrorArgs == Failures \cup {NoneVal}

\* str(x)
Str(x) == IF x = NoneVal THEN "None" ELSE IF x = "SomeFailure('y')" THEN "y" ELSE x

\* bool(x) of an Optional[Exception]
Truthy(x) == x # NoneVal

\* the caller's extra keyword arguments, by name; each carries KwValue
KwValue   == "kw"
KwargSets == {{}, {"strategy_id"}, {"agent_id"}, {"error_details"}, {"level"}, {"bogus"}}

\* @dataclass LogEntry: its fields
LogEntryFields == {"timestamp", "level", "component", "message", "agent_id",
                   "strategy_id", "trade_id", "error_details"}

\* the parameters of _log_to_firestore(self, level, message, **kwargs)
LogToFirestoreParams == {"self", "level", "message"}

\* datetime.isoformat(): the seconds, then the microseconds unless they are 0
isoformatUsecFirst(now) == <<now % UsecPerSec, now \div UsecPerSec>>
isoformat(now) ==
    IF now % UsecPerSec = 0 THEN <<now \div UsecPerSec>>
    ELSE <<now \div UsecPerSec, now % UsecPerSec>>

\* the lines one record of a component logger writes: Logger.callHandlers runs
\* the logger's own handlers, then (propagate) those of the root logger
ConsoleLines(id, lg, level, text) ==
    IF LevelNo[level] >= ComponentLevel
    THEN [i \in 1..handlers[loggers[lg].component_name] |->
             Line(id, lg, "own", level, text)]
         \o RootLines(id, lg, level, text, rootHandlers)
    ELSE <<>>

\* the output kept when a call starts: that of config.py and of the call before
Recent(ev, prev) == SelectSeq(ev, LAMBDA e : e.call = 0 \/ e.call >= prev)

\* the start of a per-level call, through its self.logger.<level>(...) line
StartCall(t, i, level, err, details, kw) ==
    /\ pc[t] = "idle"
    /\ ops < MaxOps
    /\ ops' = ops + 1
    /\ calls' = calls + 1
    /\ call' = [call EXCEPT ![t] =
                  [id |-> calls + 1, logger |-> i, level |-> level, error |-> err,
                   error_details |-> details, kwargs |-> kw]]
    /\ events' = Recent(events, calls) \o ConsoleLines(calls + 1, i, level, "message")
    /\ pc' = [pc EXCEPT ![t] = "mirror"]
    /\ last' = [last EXCEPT ![t] = [op |-> "busy", outcome |-> "none", boot |-> "none"]]
    /\ UNCHANGED <<environ, sdkInstalled, apps, initLog, rootHandlers, handlers,
                   configLoaded, config, loggers, clock, cfg, why, fault,
                   attempts, appsAtStart, pend>>

\* EcosystemLogger.info, line 81
Info(t) ==
    \E i \in 1..Len(loggers), kw \in KwargSets :
        StartCall(t, i, "INFO", NoneVal, NoneVal, kw)

\* EcosystemLogger.warning, line 86
Warning(t) ==
    \E i \in 1..Len(loggers), kw \in KwargSets :
        StartCall(t, i, "WARNING", NoneVal, NoneVal, kw)

\* error_details = str(error) if error else None
ErrorDetailsAlwaysStr(err) == Str(err)
ErrorDetails(err) == IF Truthy(err) THEN Str(err) ELSE NoneVal

\* EcosystemLogger.error, lines 91-92
Error(t) ==
    \E i \in 1..Len(loggers), kw \in KwargSets, err \in ErrorArgs :
        StartCall(t, i, "ERROR", err, ErrorDetails(err), kw)

\* the keyword arguments the per-level method passes to _log_to_firestore
PassedKw(c) ==
    IF c.level = "ERROR" THEN <<{"error_details"}, c.kwargs>> ELSE <<{}, c.kwargs>>

\* binding them raises TypeError in the caller: a keyword given twice, or one
\* that names a positional parameter already bound
BindRaises(c) ==
    \/ PassedKw(c)[1] \cap PassedKw(c)[2] # {}
    \/ c.kwargs \cap LogToFirestoreParams # {}

\* LogEntry(timestamp=..., level=..., component=..., message=..., agent_id=...,
\* **kwargs) raises TypeError: a keyword given twice, or no field of LogEntry
EntryRaises(kw) ==
    \/ kw \cap {"timestamp", "level", "component", "message", "agent_id"} # {}
    \/ ~(kw \subseteq LogEntryFields)

Field(kw, f, given) == IF f \in kw THEN KwValue ELSE given

\* the LogEntry of a call c on logger l at instant now, as entry.to_dict()
MkEntry(c, l, now) ==
    [timestamp |-> isoformat(now), level |-> c.level,
     component |-> l.component_name, message |-> "x", agent_id |-> l.agent_id,
     strategy_id |-> Field(c.kwargs, "strategy_id", NoneVal),
     trade_id |-> Field(c.kwargs, "trade_id", NoneVal),
     error_details |-> IF c.level = "ERROR" THEN c.error_details
                       ELSE Field(c.kwargs, "error_details", NoneVal)]

RemoteWrite(id, lg, entry, ok) ==
    [kind |-> "write", call |-> id, logger |-> lg, handler |-> "remote",
     level |-> entry.level,
     text |-> "entry", ok |-> ok, entry |-> entry]

EndCall(t, outcome) ==
    /\ pc' = [pc EXCEPT ![t] = "idle"]
    /\ last' = [last EXCEPT ![t] = [op |-> "log", outcome |-> outcome, boot |-> "none"]]

\* the except clause of _log_to_firestore: self.logger.error(...)
FailureNote(c) == ConsoleLines(c.id, c.logger, "ERROR", "note")

\* the call of _log_to_firestore and its body, lines 56-77
LogToFirestore(t) ==
    LET c == call[t]
        l == loggers[c.logger]
    IN
    /\ pc[t] = "mirror"
    /\ UNCHANGED <<environ, sdkInstalled, apps, initLog, rootHandlers, handlers,
                   configLoaded, config, loggers, ops, calls, cfg, why, fault,
                   attempts, appsAtStart, pend, call>>
    /\ IF BindRaises(c)
       THEN /\ EndCall(t, "raised")
            /\ UNCHANGED <<events, clock>>
       ELSE IF l.firestore_client = NoneVal
       THEN /\ EndCall(t, "returned")
            /\ UNCHANGED <<events, clock>>
       ELSE /\ EndCall(t, "returned")
            /\ \E now \in clock..MaxClock, ok \in BOOLEAN :
                  /\ clock' = now
                  /\ IF EntryRaises(c.kwargs)
                     THEN events' = events \o FailureNote(c)
                     ELSE events' = Append(events, RemoteWrite(c.id, c.logger, MkEntry(c, l, now), ok))
                                    \o (IF ok THEN <<>> ELSE FailureNote(c))

NextT(T) ==
    \E t \in T :
        \/ ImportConfig(t)
        \/ DirectConfig(t)
        \/ InitFirebase(t)
        \/ InitializeApp(t)
        \/ FirestoreClient(t)
        \/ CreateLogger(t)
        \/ CreateLoggerImport(t)
        \/ Info(t)
        \/ Warning(t)
        \/ Error(t)
        \/ LogToFirestore(t)

\* one thread of control: every operation runs to its end before the next
Next == NextT({1})
Spec == Init /\ [][Next]_vars

\* Config constructions by two threads, interleaved at the calls into
\* firebase_admin
NextBoot(T) ==
    \E t \in T :
        \/ ImportConfig(t)
        \/ DirectConfig(t)
        \/ InitFirebase(t)
        \/ InitializeApp(t)
        \/ FirestoreClient(t)

NextConc == NextBoot(Threads)
SpecConc == Init /\ [][NextConc]_vars

\* Config constructions by one thread, for every private key
NextKey == NextBoot({1})
SpecKey == InitKey /\ [][NextKey]_vars

\* ================================================================ claims
BootEnded(t)  == pc[t] = "idle" /\ last[t].boot # "none"
CallEnded(t)  == pc[t] = "idle" /\ last[t].op = "log"
HasProject(fc) == fc.present /\ fc.project_id # ""

LinesOf(id)  == {i \in DOMAIN events : events[i].kind = "line" /\ events[i].call = id}
NotesOf(id)  == {i \in LinesOf(id) : events[i].text = "note"}
WritesOf(id) == {i \in DOMAIN events : events[i].kind = "write" /\ events[i].call = id}

ValidInitCalls == Len(SelectSeq(initLog, LAMBDA e : e.fault = "none"))
ReinitCalls    == Len(SelectSeq(initLog, LAMBDA e : e.apps # 0))

\* C1: a Config construction never raises, and its mode is the member matching
\* TRADING_MODE when that is paper, live or backtest, and PAPER for any other
\* value and when the variable is unset.
ResolvedMode(v) ==
    CASE v = "paper" -> "PAPER" [] v = "live" -> "LIVE"
      [] v = "backtest" -> "BACKTEST" [] OTHER -> "PAPER"

C1_ModeResolution ==
    \A t \in Threads :
        BootEnded(t) =>
            /\ last[t].boot = "returned"
            /\ cfg[t].mode = ResolvedMode(environ.TRADING_MODE)

\* C2: a remote write that throws is preceded in the output by the console
\* line of its call, and that call returns normally.
C2_ConsoleBeforeFailedWrite ==
    \A j \in DOMAIN events :
        (events[j].kind = "write" /\ ~events[j].ok) =>
            /\ \E i \in 1..(j - 1) :
                  /\ events[i].kind = "line"
                  /\ events[i].call = events[j].call
                  /\ events[i].text = "message"
            /\ \A t \in Threads :
                  call[t].id = events[j].call =>
                      /\ pc[t] # "mirror"
                      /\ last[t].op = "log" => last[t].outcome = "returned"

C2_Witness ==
    \E j \in DOMAIN events, t \in Threads :
        /\ events[j].kind = "write" /\ ~events[j].ok
        /\ call[t].id = events[j].call
        /\ CallEnded(t) /\ last[t].outcome = "returned"

\* C3: of two threads constructing Config with credentials that work, at most
\* one gets past the test of firebase_admin._apps to initialize_app, which is
\* so invoked at most once.
C3_SingleInitUnderRace ==
    /\ Cardinality({t \in Threads : pc[t] = "init" /\ fault[t] = "none"}) <= 1
    /\ ValidInitCalls <= 1

\* C4: in sequential Config constructions, initialize_app is invoked at most
\* once by constructions whose remote steps work and never while an app is
\* registered; a construction that starts with the app registered does not
\* invoke it and ends with the client present.
C4_SequentialInitOnce ==
    /\ ValidInitCalls <= 1
    /\ ReinitCalls = 0
    /\ \A t \in Threads :
          (BootEnded(t) /\ last[t].boot = "returned" /\ appsAtStart[t] # 0
             /\ HasProject(cfg[t].firebase_config) /\ fault[t] = "none") =>
              /\ "init" \notin attempts[t]
              /\ cfg[t].firestore_client = Client

C4_Witness ==
    \E t \in Threads :
        /\ BootEnded(t) /\ last[t].boot = "returned" /\ appsAtStart[t] # 0
        /\ fault[t] = "none" /\ cfg[t].firestore_client = Client
        /\ Len(initLog) = 1

\* C5: a Config construction whose credentials are None or have an empty
\* project id attempts no remote step (it builds no credential object, calls
\* neither initialize_app nor firestore.client) and ends with no client.
C5_NoCredentialsNoAttempt ==
    \A t \in Threads :
        ((InBoot(t) \/ (BootEnded(t) /\ last[t].boot = "returned"))
           /\ ~HasProject(cfg[t].firebase_config)) =>
            /\ pc[t] \in {"init_firebase", "idle"}
            /\ attempts[t] = {}
            /\ cfg[t].firestore_client = NoneVal

C5_Witness ==
    \E t \in Threads :
        /\ BootEnded(t) /\ last[t].boot = "returned"
        /\ cfg[t].firebase_config.present
        /\ cfg[t].firebase_config.project_id = ""
        /\ cfg[t].firestore_client = NoneVal

\* C6: a Config construction in which a remote step failed returns with no
\* client; a Config holds a client only if its credentials name a project and
\* every remote step it took worked.
C6_FailureLeavesNoClient ==
    /\ \A t \in Threads :
          (BootEnded(t) /\ fault[t] \in attempts[t]) =>
              /\ last[t].boot = "returned"
              /\ cfg[t].firestore_client = NoneVal
    /\ \A t \in Threads :
          cfg[t].firestore_client # NoneVal =>
              /\ HasProject(cfg[t].firebase_config)
              /\ fault[t] \notin attempts[t]
              /\ {"cert", "client"} \subseteq attempts[t]
    /\ config.firestore_client # NoneVal => HasProject(config.firebase_config)

C6_Witness ==
    \E t \in Threads :
        /\ BootEnded(t) /\ fault[t] = "client" /\ "client" \in attempts[t]
        /\ last[t].boot = "returned" /\ cfg[t].firestore_client = NoneVal

\* C7: an info call on a logger with no client writes exactly one console
\* line and makes no remote write.
C7_OneConsoleLine ==
    \A t \in Threads :
        (CallEnded(t) /\ call[t].level = "INFO"
           /\ loggers[call[t].logger].firestore_client = NoneVal) =>
            /\ Cardinality(LinesOf(call[t].id)) = 1
            /\ WritesOf(call[t].id) = {}

\* C8: the entry an error call writes has level ERROR and error_details the
\* text of the exception supplied, None when none was supplied; with no other
\* keyword the call writes one entry.
C8_ErrorEntry ==
    \A t \in Threads :
        (CallEnded(t) /\ call[t].level = "ERROR"
           /\ loggers[call[t].logger].firestore_client # NoneVal) =>
            /\ \A j \in WritesOf(call[t].id) :
                  /\ events[j].entry.level = "ERROR"
                  /\ call[t].error = "SomeFailure('y')" =>
                         events[j].entry.error_details = "y"
                  /\ call[t].error = NoneVal =>
                         /\ events[j].entry.error_details = NoneVal
                         /\ events[j].entry.error_details # "None"
            /\ call[t].kwargs = {} => Cardinality(WritesOf(call[t].id)) = 1

C8_Witness ==
    \E t \in Threads :
        /\ CallEnded(t) /\ call[t].level = "ERROR"
        /\ call[t].error = "SomeFailure('y')"
        /\ \E j \in WritesOf(call[t].id) : events[j].entry.error_details = "y"

\* C9: a log call makes at most one remote write; a write that fails is
\* followed by exactly one console note and by no other remote write.
C9_SingleNoteNoRetry ==
    \A t \in Threads :
        CallEnded(t) =>
            /\ Cardinality(WritesOf(call[t].id)) <= 1
            /\ \A j \in WritesOf(call[t].id) :
                  ~events[j].ok =>
                      /\ Cardinality(NotesOf(call[t].id)) = 1
                      /\ \A i \in NotesOf(call[t].id) : i > j
            /\ \A i \in NotesOf(call[t].id), j \in WritesOf(call[t].id) : j < i

\* C10: of two log calls issued one after the other (on one logger instance in
\* particular), the output of the earlier precedes the output of the later,
\* the entries' timestamps do not decrease in that order, and an entry's
\* timestamp is the instant of its call.
LexLeq(a, b) ==
    \/ \E k \in 1..Len(a) :
          /\ k <= Len(b)
          /\ \A m \in 1..(k - 1) : a[m] = b[m]
          /\ a[k] < b[k]
    \/ /\ Len(a) <= Len(b)
       /\ \A m \in 1..Len(a) : a[m] = b[m]

InstantText(now) ==
    IF now % UsecPerSec = 0 THEN <<now \div UsecPerSec>>
    ELSE <<now \div UsecPerSec, now % UsecPerSec>>

C10_CallOrder ==
    /\ \A i, j \in DOMAIN events :
          (events[i].call # 0 /\ events[i].call < events[j].call) =>
              /\ i < j
              /\ (events[i].kind = "write" /\ events[j].kind = "write") =>
                     LexLeq(events[i].entry.timestamp, events[j].entry.timestamp)
    /\ \A t \in Threads :
          CallEnded(t) =>
              \A j \in WritesOf(call[t].id) :
                  events[j].entry.timestamp = InstantText(clock)

C10_Witness ==
    \E i, j \in DOMAIN events :
        /\ events[i].kind = "write" /\ events[j].kind = "write"
        /\ events[i].logger = events[j].logger
        /\ events[i].call < events[j].call
        /\ events[i].entry.timestamp # events[j].entry.timestamp

\* C11: creating a logger on the loaded config module, and every step of a log
\* call, leave the config global, the app registry and the record of
\* initialize_app invocations as they were; and every logger holds the client
\* the config global holds (none while no config module is loaded).
HoldsConfigClient(lg, loaded, conf) ==
    lg.firestore_client = (IF loaded THEN conf.firestore_client ELSE NoneVal)

\* a step of a log call, or a logger creation that runs no Config construction
LoggerStep ==
    \E t \in Threads :
        \/ pc[t] = "mirror"
        \/ pc'[t] = "mirror"
        \/ /\ pc[t] = "idle" /\ pc'[t] = "idle"
           /\ last'[t].op = "create" /\ last'[t].boot = "none"
           /\ Len(loggers') = Len(loggers) + 1

C11_SharedClientReadOnly ==
    [][/\ LoggerStep => UNCHANGED <<config, configLoaded, apps, initLog, attempts>>
       /\ \A i \in DOMAIN loggers' :
             HoldsConfigClient(loggers'[i], configLoaded', config')]_vars

C11_Witness ==
    \E t \in Threads :
        /\ pc[t] = "idle" /\ last[t].op = "log"
        /\ configLoaded /\ config.firestore_client = Client
        /\ Len(loggers) >= 2
        /\ \A i \in DOMAIN loggers : loggers[i].firestore_client = Client

\* C12: the private key of the credentials is the key of the environment with
\* each backslash-n pair turned into one newline and every other character
\* kept in place; it holds no backslash-n pair, and equals the key of the
\* environment when that holds none.
EscapeAt(key) == {i \in 1..(Len(key) - 1) : key[i] = Backslash /\ key[i + 1] = "n"}

Unescaped(key) ==
    LET marked == [i \in 1..Len(key) |->
                      IF i \in EscapeAt(key) THEN Newline
                      ELSE IF (i - 1) \in EscapeAt(key) THEN "drop"
                      ELSE key[i]]
    IN SelectSeq(marked, LAMBDA c : c # "drop")

C12_KeyNormalized ==
    \A t \in Threads :
        cfg[t].firebase_config.present =>
            LET key == environ.FIREBASE_PRIVATE_KEY
                out == cfg[t].firebase_config.private_key
            IN /\ out = Unescaped(key)
               /\ EscapeAt(out) = {}
               /\ EscapeAt(key) = {} => out = key

C12_Witness ==
    \E t \in Threads :
        /\ BootEnded(t) /\ last[t].boot = "returned"
        /\ environ.FIREBASE_PRIVATE_KEY = <<Backslash, "n", Backslash, "n">>
        /\ cfg[t].firebase_config.private_key = <<Newline, Newline>>

\* C13: a per-level call returns normally to its caller whatever extra
\* keyword names it is given and whether or not its logger holds a client.
C13_CallNeverRaises ==
    \A t \in Threads :
        CallEnded(t) => last[t].outcome = "returned"

\* C14: constructing a logger never raises; when the import of config fails
\* or the Config construction it runs fails, the logger exists and holds no
\* client.
C14_LoggerAlwaysCreated ==
    \A t \in Threads :
        (pc[t] = "idle" /\ last[t].op = "create") =>
            /\ last[t].outcome = "returned"
            /\ loggers # <<>>
            /\ ~configLoaded => loggers[Len(loggers)].firestore_client = NoneVal

====
